---- MODULE Spec2Model ----
(***************************************************************************)
(* Model of firmware/dmainstrs.c: the LUT builders and the DMA descriptor  *)
(* chain emitted by build_add8_using_nybbles, executed by a                *)
(* descriptor-walking DMA engine.                                          *)
(*                                                                         *)
(*   TableSpec : one call of one table builder, one loop iteration a step  *)
(*   Spec      : build_add8_using_nybbles for two chains, then the engine  *)
(*               walking both chains, one fetch or one beat a step         *)
(*   FairSpec  : Spec with the engine never stopping while it has work     *)
(***************************************************************************)
EXTENDS Integers, Sequences, FiniteSets, TLC

\* ------------------------------------------------------------------------
\* Bounds of the model

\* initial contents of a fresh table buffer: bytes Fill(0) .. Fill(NumFills-1)
NumFills == 2

\* output bytes a, b handed to setup_nybble_compare_equal: CmpVal(0..NumCmpVals-1)
NumCmpVals == 2

\* a caller's buffer is 0 .. MaxShort entries shorter than the table
MaxShort == 1

\* operand bytes stored at opa and opb: OperandVal(0) .. OperandVal(NumOperandVals-1)
NumOperandVals == 4

\* values the caller stores to an operand after a chain is built
NumStoreVals == 1

\* contents of the flash at addresses 0..255: images RomByte(0, _) .. RomByte(NumRomImages-1, _)
NumRomImages == 2

\* words an unwritten descriptor field may hold: JunkWord(0) .. JunkWord(NumJunkWords-1)
NumJunkWords == 3

\* ------------------------------------------------------------------------
\* C integer arithmetic on non-negative values

RECURSIVE BitAnd(_, _)
BitAnd(x, y) ==
    IF x = 0 \/ y = 0 THEN 0
    ELSE (x % 2) * (y % 2) + 2 * BitAnd(x \div 2, y \div 2)

RECURSIVE BitOr(_, _)
BitOr(x, y) ==
    IF x = 0 THEN y
    ELSE IF y = 0 THEN x
    ELSE (IF (x % 2) + (y % 2) > 0 THEN 1 ELSE 0) + 2 * BitOr(x \div 2, y \div 2)

Shl(x, n) == x * (2 ^ n)

Shr(x, n) == x \div (2 ^ n)

\* conversion to uint8_t
U8(x) == x % 256

\* ------------------------------------------------------------------------
\* Table builders: the byte each builder stores at index count

low_nybble_to_low_nybble(count) == U8(BitAnd(Shl(count, 0), 15))

low_nybble_to_high_nybble(count) == U8(BitAnd(Shl(count, 4), 240))

high_nybble_to_high_nybble(count) == U8(BitAnd(Shl(count, 0), 240))

\* the shift left out
high_nybble_to_low_nybble_noshift(count) == U8(BitAnd(count, 15))

high_nybble_to_low_nybble(count) == U8(BitAnd(Shr(count, 4), 15))

\* dmainstrs.c:125, the first function named setup_nybble_add_no_carryin
nybble_add_no_carryin(count) ==
    U8(BitAnd(BitAnd(Shr(count, 4), 15) + BitAnd(count, 15), 15))

\* dmainstrs.c:136, the first function named setup_nybble_add_with_carryin
nybble_add_with_carryin(count) ==
    U8(BitAnd(BitAnd(Shr(count, 4), 15) + BitAnd(count, 15) + 1, 15))

\* dmainstrs.c:146, the second function named setup_nybble_add_no_carryin
nybble_carryout_no_carryin(count) ==
    U8(Shr(BitAnd(BitAnd(Shr(count, 4), 15) + BitAnd(count, 15), 16), 4))

\* the carry-in left out
nybble_carryout_with_carryin_nocarry(count) ==
    U8(Shr(BitAnd(BitAnd(Shr(count, 4), 15) + BitAnd(count, 15), 16), 4))

\* dmainstrs.c:156, the second function named setup_nybble_add_with_carryin
nybble_carryout_with_carryin(count) ==
    U8(Shr(BitAnd(BitAnd(Shr(count, 4), 15) + BitAnd(count, 15) + 1, 16), 4))

\* the two outputs swapped
nybble_compare_equal_swapped(count, a, b) ==
    IF BitAnd(count, 15) = BitAnd(Shr(count, 4), 15) THEN b ELSE a

nybble_compare_equal(count, a, b) ==
    IF BitAnd(count, 15) = BitAnd(Shr(count, 4), 15) THEN a ELSE b

\* setup_low_nybble_low_nybble_to_byte: index and value of one store
\* the copies laid out next to each other instead of 16 apart
combine_idx_adjacent(high_nybble, low_nybble, dup_count) ==
    (dup_count * 1) + (low_nybble * 16) + (high_nybble * 256)

combine_idx(high_nybble, low_nybble, dup_count) ==
    (dup_count * 16) + (low_nybble * 1) + (high_nybble * 256)

combine_target_value(high_nybble, low_nybble) ==
    U8(BitOr(Shl(high_nybble, 4), low_nybble))

ByteBuilders ==
    { "low_nybble_to_low_nybble", "low_nybble_to_high_nybble",
      "high_nybble_to_high_nybble", "high_nybble_to_low_nybble",
      "nybble_add_no_carryin", "nybble_add_with_carryin",
      "nybble_carryout_no_carryin", "nybble_carryout_with_carryin",
      "nybble_compare_equal" }

\* the value a byte builder stores at base[count]
Entry(f, count, a, b) ==
    CASE f = "low_nybble_to_low_nybble"     -> low_nybble_to_low_nybble(count)
      [] f = "low_nybble_to_high_nybble"    -> low_nybble_to_high_nybble(count)
      [] f = "high_nybble_to_high_nybble"   -> high_nybble_to_high_nybble(count)
      [] f = "high_nybble_to_low_nybble"    -> high_nybble_to_low_nybble(count)
      [] f = "nybble_add_no_carryin"        -> nybble_add_no_carryin(count)
      [] f = "nybble_add_with_carryin"      -> nybble_add_with_carryin(count)
      [] f = "nybble_carryout_no_carryin"   -> nybble_carryout_no_carryin(count)
      [] f = "nybble_carryout_with_carryin" -> nybble_carryout_with_carryin(count)
      [] f = "nybble_compare_equal"         -> nybble_compare_equal(count, a, b)

\* entries the caller's buffer has: 16x256 for the combine table, 256 otherwise
TableSize(f) == IF f = "low_nybble_low_nybble_to_byte" THEN 4096 ELSE 256

Fill(k) == (k * 165) % 256

CmpVal(k) == (k * 90 + 1) % 256

\* ------------------------------------------------------------------------
\* State

VARIABLES
    fn,           \* the table builder that was called ("" before the call)
    tpc,          \* "idle", "loop" (inside the builder) or "returned"
    base,         \* memory from the address base on, index -> byte
    buflen,       \* entries of it that are the caller's buffer; the rest lies behind it
    written,      \* indices the builder has stored to so far
    count,        \* the uint8_t loop counter of a byte builder
    high_nybble,  \* the two outer uint32_t loop counters of the combine builder
    low_nybble,
    cmp_a,        \* arguments a, b of setup_nybble_compare_equal
    cmp_b

tvars == << fn, tpc, base, buflen, written, count, high_nybble, low_nybble, cmp_a,
           cmp_b >>

VARIABLES
    layout,       \* where the linker put scratch, operands, descriptors and tables
    rom,          \* which flash image is at addresses 0..255
    mem,          \* RAM: address -> byte, for the addresses the chains can reach
    pc,           \* per chain: "idle", "built", "fetch", "xfer", "halted", "fault", "lost"
    cur,          \* per chain: address of the descriptor the channel is at
    reg,          \* per chain: the descriptor as latched by the last fetch
    rd,           \* per chain: << descriptor index, address >> read so far
    wr,           \* per chain: << descriptor index, address >> written so far
    executed,     \* per chain: indices of the descriptors whose transfer completed
    stray         \* addresses written outside the RAM that mem covers

cvars == << layout, rom, mem, pc, cur, reg, rd, wr, executed, stray >>

vars == << tvars, cvars >>

TInit ==
    /\ fn = ""
    /\ tpc = "idle"
    /\ base = << >>
    /\ buflen = 0
    /\ written = {}
    /\ count = 0
    /\ high_nybble = 0
    /\ low_nybble = 0
    /\ cmp_a = 0
    /\ cmp_b = 0

\* ------------------------------------------------------------------------
\* Table builders as loops

\* the caller hands the builder a pointer to a buffer with arbitrary bytes, of
\* the table's size or shorter; the builder is not told the length
CallBuilder(f, a, b) ==
    /\ tpc = "idle"
    /\ fn' = f
    /\ tpc' = "loop"
    /\ \E k \in 0 .. NumFills - 1, short \in 0 .. MaxShort :
           /\ short = 0 \/ k = 0
           /\ base' = [i \in 0 .. TableSize(f) - 1 |-> Fill(k)]
           /\ buflen' = TableSize(f) - short
    /\ written' = {}
    /\ count' = 0
    /\ high_nybble' = 0
    /\ low_nybble' = 0
    /\ cmp_a' = a
    /\ cmp_b' = b
    /\ UNCHANGED cvars

\* the caller calls the builder that has returned once more, on the same buffer
CallAgain ==
    /\ tpc = "returned"
    /\ tpc' = "loop"
    /\ count' = 0
    /\ high_nybble' = 0
    /\ low_nybble' = 0
    /\ UNCHANGED << fn, base, buflen, written, cmp_a, cmp_b, cvars >>

\* the store base[idx] |= v in place of base[idx] = v
StoreOr(idx, v) ==
    /\ base' = IF idx \in DOMAIN base THEN [base EXCEPT ![idx] = BitOr(@, v)] ELSE base
    /\ written' = written \cup {idx}

\* the store base[idx] = v
Store(idx, v) ==
    /\ base' = IF idx \in DOMAIN base THEN [base EXCEPT ![idx] = v] ELSE base
    /\ written' = written \cup {idx}

\* the uint8_t counter after count++ and the test count < 256 that follows
ByteLoopNext(c) == U8(c + 1)

\* one iteration of for (uint8_t count = 0; count < 256; count++) { base[count] = ...; }
ByteLoopIter(f) ==
    /\ fn = f
    /\ tpc = "loop"
    /\ Store(count, Entry(f, count, cmp_a, cmp_b))
    /\ count' = ByteLoopNext(count)
    /\ tpc' = IF ByteLoopNext(count) < 256 THEN "loop" ELSE "returned"
    /\ UNCHANGED << fn, buflen, high_nybble, low_nybble, cmp_a, cmp_b, cvars >>

setup_low_nybble_to_low_nybble ==
    \/ CallBuilder("low_nybble_to_low_nybble", 0, 0)
    \/ ByteLoopIter("low_nybble_to_low_nybble")

setup_low_nybble_to_high_nybble ==
    \/ CallBuilder("low_nybble_to_high_nybble", 0, 0)
    \/ ByteLoopIter("low_nybble_to_high_nybble")

setup_high_nybble_to_high_nybble ==
    \/ CallBuilder("high_nybble_to_high_nybble", 0, 0)
    \/ ByteLoopIter("high_nybble_to_high_nybble")

setup_high_nybble_to_low_nybble ==
    \/ CallBuilder("high_nybble_to_low_nybble", 0, 0)
    \/ ByteLoopIter("high_nybble_to_low_nybble")

setup_nybble_add_no_carryin ==
    \/ CallBuilder("nybble_add_no_carryin", 0, 0)
    \/ ByteLoopIter("nybble_add_no_carryin")

setup_nybble_add_with_carryin ==
    \/ CallBuilder("nybble_add_with_carryin", 0, 0)
    \/ ByteLoopIter("nybble_add_with_carryin")

setup_nybble_carryout_no_carryin ==
    \/ CallBuilder("nybble_carryout_no_carryin", 0, 0)
    \/ ByteLoopIter("nybble_carryout_no_carryin")

setup_nybble_carryout_with_carryin ==
    \/ CallBuilder("nybble_carryout_with_carryin", 0, 0)
    \/ ByteLoopIter("nybble_carryout_with_carryin")

setup_nybble_compare_equal ==
    \/ \E ka, kb \in 0 .. NumCmpVals - 1 :
           CallBuilder("nybble_compare_equal", CmpVal(ka), CmpVal(kb))
    \/ ByteLoopIter("nybble_compare_equal")

\* the indices the innermost loop (dup_count = 0 .. 15) stores to
CombineIdxs(hn, ln) == { combine_idx(hn, ln, d) : d \in 0 .. 15 }

\* the buffer b after for (; dup_count < 16; dup_count++) { base[idx] = target_value; }
RECURSIVE DupCountLoop(_, _, _, _)
DupCountLoop(b, hn, ln, dup_count) ==
    IF dup_count < 16
    THEN DupCountLoop([b EXCEPT ![combine_idx(hn, ln, dup_count)] =
                                    combine_target_value(hn, ln)],
                      hn, ln, dup_count + 1)
    ELSE b

\* one pass of the innermost loop for (dup_count = 0; dup_count < 16; dup_count++),
\* with the increments and tests of the two outer uint32_t loops that follow it
setup_low_nybble_low_nybble_to_byte ==
    \/ CallBuilder("low_nybble_low_nybble_to_byte", 0, 0)
    \/ /\ fn = "low_nybble_low_nybble_to_byte"
       /\ tpc = "loop"
       /\ base' = DupCountLoop(base, high_nybble, low_nybble, 0)
       /\ written' = written \cup CombineIdxs(high_nybble, low_nybble)
       /\ low_nybble' = IF low_nybble + 1 < 16 THEN low_nybble + 1 ELSE 0
       /\ high_nybble' = IF low_nybble + 1 < 16 THEN high_nybble ELSE high_nybble + 1
       /\ tpc' = IF low_nybble + 1 < 16 \/ high_nybble + 1 < 16
                 THEN "loop" ELSE "returned"
       /\ UNCHANGED << fn, buflen, count, cmp_a, cmp_b, cvars >>

\* ------------------------------------------------------------------------
\* Address space of the chains

Chains == {1, 2}

\* start of the SAMD21's SRAM
SramBase == 536870912

\* DmacDescriptor: BTCTRL (16 bit), BTCNT (16 bit), SRCADDR, DSTADDR, DESCADDR (32 bit)
OffBTCTRL == 0

OffBTCNT == 2

OffSRCADDR == 4

OffDSTADDR == 8

OffDESCADDR == 12

DescSize == 16

\* sizeof(descs[2].SRCADDR): the unit of pointer arithmetic on &descs[2].SRCADDR
SizeofSRCADDR == 4

\* descriptors build_add8_using_nybbles emits: descs[0], descs[1], descs[2]
NumDescs == 3

\* sizeof(scratch)
ScratchLen == 4

\* "packed": scratch, operands, results and descriptors share one 256-byte page
\*           with the first byte table;
\* "paged":  scratch, operands and results have a page of their own, the
\*           descriptors start on the next page
Layouts == { "packed", "paged" }

OperandVal(k) ==
    CASE k = 0 -> 0
      [] k = 1 -> 1
      [] k = 2 -> 63
      [] k = 3 -> 255
      [] OTHER -> U8(k * 37)

RomByte(k, x) ==
    IF k % 2 = 0 THEN U8(x + 20 + k) ELSE U8(255 + 256 - x - (k - 1))

\* low_nybble_low_nybble_to_byte sits on a 64k boundary (dmainstrs.c:240)
CombineBase == SramBase

\* the nine 256-entry tables, one after the other
ByteTableOrder ==
    << "low_nybble_to_low_nybble", "low_nybble_to_high_nybble",
       "high_nybble_to_high_nybble", "high_nybble_to_low_nybble",
       "nybble_add_no_carryin", "nybble_add_with_carryin",
       "nybble_carryout_no_carryin", "nybble_carryout_with_carryin",
       "nybble_compare_equal" >>

ByteTablesLen == Len(ByteTableOrder) * 256

DataPage(l) ==
    IF l = "packed" THEN CombineBase + 4096 ELSE CombineBase + 4096 + ByteTablesLen

ByteTablesBase(l) ==
    IF l = "packed" THEN CombineBase + 4096 + 128 ELSE CombineBase + 4096

ScratchAddr(l, i) == DataPage(l) + i

OpaAddr(l) == DataPage(l) + ScratchLen

OpbAddr(l) == DataPage(l) + ScratchLen + 1

ResultAddr(l, c) == DataPage(l) + ScratchLen + 1 + c

DescBase(l, c) ==
    IF l = "packed"
    THEN DataPage(l) + DescSize + (c - 1) * NumDescs * DescSize
    ELSE DataPage(l) + 256 + (c - 1) * NumDescs * DescSize

\* &descs[i] of chain c
DescAddr(l, c, i) == DescBase(l, c) + i * DescSize

DescStorage(l) ==
    { x \in DescBase(l, 1) .. DescBase(l, 2) + NumDescs * DescSize - 1 : TRUE }

\* the RAM the model keeps: the page of scratch and the descriptor arrays
MemDomain(l) == (DataPage(l) .. DataPage(l) + 255) \cup DescStorage(l)

InTables(l, x) ==
    \/ CombineBase <= x /\ x < CombineBase + 4096
    \/ ByteTablesBase(l) <= x /\ x < ByteTablesBase(l) + ByteTablesLen

\* the byte the table builders left at address x of table storage
TableByteAt(l, x) ==
    IF x < CombineBase + 4096
    THEN combine_target_value((x - CombineBase) \div 256, (x - CombineBase) % 16)
    ELSE Entry(ByteTableOrder[((x - ByteTablesBase(l)) \div 256) + 1],
               (x - ByteTablesBase(l)) % 256, CmpVal(0), CmpVal(1))

JunkWord(k) ==
    CASE k = 0 -> 0
      [] k = 1 -> CombineBase
      [] OTHER -> CombineBase + 4096 + (k - 2) * ByteTablesLen

\* ------------------------------------------------------------------------
\* Little-endian fields in memory

ByteOf(w, i) == (w \div (256 ^ i)) % 256

\* a 16-bit field
Half(m, a) == m[a] + 256 * m[a + 1]

\* a 32-bit field; -1 stands for every address from 0x80000000 up, none of
\* which is flash or SRAM
Word(m, a) ==
    IF m[a + 3] >= 128 THEN -1
    ELSE m[a] + 256 * m[a + 1] + 65536 * m[a + 2] + 16777216 * m[a + 3]

\* the store of an n-byte field
PutField(m, a, n, w) ==
    [x \in DOMAIN m |-> IF a <= x /\ x < a + n THEN ByteOf(w, x - a) ELSE m[x]]

RECURSIVE ApplyStores(_, _)
ApplyStores(m, stores) ==
    IF stores = << >> THEN m
    ELSE ApplyStores(PutField(m, stores[1][1], stores[1][2], stores[1][3]), Tail(stores))

\* ------------------------------------------------------------------------
\* build_add8_using_nybbles

\* the control word with (0 << 0) for the descriptor valid bit
default_btctrl_invalid ==
    BitOr(BitOr(BitOr(BitOr(Shl(0, 13), Shl(0, 12)), BitOr(Shl(0, 11), Shl(0, 10))),
                BitOr(Shl(0, 8), Shl(0, 3))),
          BitOr(Shl(0, 1), Shl(0, 0)))

default_btctrl ==
    BitOr(BitOr(BitOr(BitOr(Shl(0, 13), Shl(0, 12)), BitOr(Shl(0, 11), Shl(0, 10))),
                BitOr(Shl(0, 8), Shl(0, 3))),
          BitOr(Shl(0, 1), Shl(1, 0)))

\* p + n for a pointer p to objects of elemSize bytes
PtrAdd(p, n, elemSize) == p + n * elemSize

\* the stores to descs[0]; opaVal is *opa, read while building and stored as
\* the source address
Desc0Stores(d, opaVal) ==
    << << d + OffBTCTRL, 2, default_btctrl >>,
       << d + OffBTCNT, 2, 1 >>,
       << d + OffSRCADDR, 4, opaVal >>,
       << d + OffDSTADDR, 4, d + 2 * DescSize + OffSRCADDR >>,
       << d + OffDESCADDR, 4, d + 1 * DescSize >> >>

\* the stores to descs[1]; opbVal is *opb, read while building. Its DSTADDR,
\* &descs[2].SRCADDR + 1, is one 4-byte field past SRCADDR: &descs[2].DSTADDR
Desc1Stores(d, opbVal) ==
    << << d + DescSize + OffBTCTRL, 2, default_btctrl >>,
       << d + DescSize + OffBTCNT, 2, 1 >>,
       << d + DescSize + OffSRCADDR, 4, opbVal >>,
       << d + DescSize + OffDSTADDR, 4,
          PtrAdd(d + 2 * DescSize + OffSRCADDR, 1, SizeofSRCADDR) >>,
       << d + DescSize + OffDESCADDR, 4, d + 2 * DescSize >> >>

\* the stores to descs[2]; its SRCADDR is not stored
Desc2Stores(d, scratch) ==
    << << d + 2 * DescSize + OffBTCTRL, 2, default_btctrl >>,
       << d + 2 * DescSize + OffBTCNT, 2, 2 >>,
       << d + 2 * DescSize + OffDSTADDR, 4, scratch + 2 >>,
       << d + 2 * DescSize + OffDESCADDR, 4, d + 2 * DescSize >> >>

\* every call uses the one static scratch[4]
build_add8_using_nybbles(c) ==
    /\ pc[c] = "idle"
    /\ mem' = ApplyStores(mem,
                  Desc0Stores(DescBase(layout, c), mem[OpaAddr(layout)])
                  \o Desc1Stores(DescBase(layout, c), mem[OpbAddr(layout)])
                  \o Desc2Stores(DescBase(layout, c), ScratchAddr(layout, 0)))
    /\ pc' = [pc EXCEPT ![c] = "built"]
    /\ UNCHANGED << layout, rom, cur, reg, rd, wr, executed, stray, tvars >>

\* ------------------------------------------------------------------------
\* The DMA engine, one channel per chain

NoReg == [ctrl |-> 0, cnt |-> 0, src |-> 0, dst |-> 0, next |-> 0]

\* index in descs[] of the descriptor at address a
DescIdx(c, a) == (a - DescBase(layout, c)) \div DescSize

\* control word: bit 0 valid; beat size (bits 9-8) byte, no source increment
\* (bit 10), no destination increment (bit 11)
CtrlValid(ctrl) == ctrl % 2 = 1

CtrlPlainByteCopy(ctrl) == (ctrl \div 256) % 16 = 0

\* the values a read of address x may return
ReadVals(x) ==
    IF x \in DOMAIN mem THEN { mem[x] }
    ELSE IF x >= 0 /\ InTables(layout, x) THEN { TableByteAt(layout, x) }
    ELSE IF x >= 0 /\ x < 256 THEN { RomByte(rom, x) }
    ELSE { Fill(k) : k \in 0 .. NumFills - 1 }

\* software starts the channel at the chain's first descriptor
Trigger(c) ==
    /\ pc[c] = "built"
    /\ pc' = [pc EXCEPT ![c] = "fetch"]
    /\ cur' = [cur EXCEPT ![c] = DescAddr(layout, c, 0)]
    /\ UNCHANGED << layout, rom, mem, reg, rd, wr, executed, stray, tvars >>

\* the channel latches the descriptor at cur
Fetch(c) ==
    /\ pc[c] = "fetch"
    /\ LET a == cur[c]
           inRam == a >= 0 /\ \A i \in 0 .. DescSize - 1 : a + i \in DOMAIN mem
           r == [ctrl |-> Half(mem, a + OffBTCTRL),
                 cnt  |-> Half(mem, a + OffBTCNT),
                 src  |-> Word(mem, a + OffSRCADDR),
                 dst  |-> Word(mem, a + OffDSTADDR),
                 next |-> Word(mem, a + OffDESCADDR)]
       IN  IF ~inRam
           THEN /\ pc' = [pc EXCEPT ![c] = "lost"]
                /\ UNCHANGED << reg, rd >>
           ELSE /\ reg' = [reg EXCEPT ![c] = r]
                /\ rd' = [rd EXCEPT ![c] = @ \cup
                             { << DescIdx(c, a), a + OffSRCADDR + i >> : i \in 0 .. 3 }]
                /\ pc' = [pc EXCEPT ![c] =
                             IF ~CtrlValid(r.ctrl) \/ r.cnt = 0 THEN "fault"
                             ELSE IF ~CtrlPlainByteCopy(r.ctrl) THEN "lost"
                             ELSE "xfer"]
    /\ UNCHANGED << layout, rom, mem, cur, wr, executed, stray, tvars >>

\* the block transfer of the latched descriptor: cnt beats, each copying the
\* byte at src to dst (no increment), then the link is followed
Transfer(c) ==
    /\ pc[c] = "xfer"
    /\ LET r == reg[c]
           i == DescIdx(c, cur[c])
       IN  /\ \E v \in ReadVals(r.src) :
                  mem' = IF r.dst \in DOMAIN mem THEN [mem EXCEPT ![r.dst] = v] ELSE mem
           /\ stray' = IF r.dst \in DOMAIN mem THEN stray ELSE stray \cup { r.dst }
           /\ rd' = [rd EXCEPT ![c] = @ \cup { << i, r.src >> }]
           /\ wr' = [wr EXCEPT ![c] = @ \cup { << i, r.dst >> }]
           /\ executed' = [executed EXCEPT ![c] = @ \cup { i }]
           /\ pc' = [pc EXCEPT ![c] = IF r.next = 0 THEN "halted" ELSE "fetch"]
           /\ cur' = [cur EXCEPT ![c] = IF r.next = 0 THEN @ ELSE r.next]
    /\ UNCHANGED << layout, rom, reg, tvars >>

\* the caller stores a new value through opa or opb after a chain has been
\* built and before any chain is triggered
StoreOperand ==
    /\ \E c \in Chains : pc[c] = "built"
    /\ \A c \in Chains : pc[c] \in { "idle", "built" }
    /\ \E x \in { OpaAddr(layout), OpbAddr(layout) }, k \in 0 .. NumStoreVals - 1 :
           /\ mem[x] # OperandVal(NumOperandVals - 1 - k)
           /\ mem' = [mem EXCEPT ![x] = OperandVal(NumOperandVals - 1 - k)]
    /\ UNCHANGED << layout, rom, pc, cur, reg, rd, wr, executed, stray, tvars >>

\* ------------------------------------------------------------------------
\* Specifications

ChainIdle ==
    /\ pc = [c \in Chains |-> "idle"]
    /\ cur = [c \in Chains |-> 0]
    /\ reg = [c \in Chains |-> NoReg]
    /\ rd = [c \in Chains |-> {}]
    /\ wr = [c \in Chains |-> {}]
    /\ executed = [c \in Chains |-> {}]
    /\ stray = {}

\* RAM before build_add8_using_nybbles is called: the operands hold a and b,
\* scratch (static) and the results are zero, the tables are built, and the
\* descriptor arrays hold whatever was there
InitMem(l, a, b, junk) ==
    [x \in MemDomain(l) |->
        IF x = OpaAddr(l) THEN a
        ELSE IF x = OpbAddr(l) THEN b
        ELSE IF x \in DescStorage(l) THEN ByteOf(junk, (x - DescBase(l, 1)) % 4)
        ELSE IF InTables(l, x) THEN TableByteAt(l, x)
        ELSE 0]

Init ==
    /\ TInit
    /\ layout \in Layouts
    /\ rom \in 0 .. NumRomImages - 1
    /\ \E ka, kb \in 0 .. NumOperandVals - 1, kj \in 0 .. NumJunkWords - 1 :
           mem = InitMem(layout, OperandVal(ka), OperandVal(kb), JunkWord(kj))
    /\ ChainIdle

Next ==
    \/ \E c \in Chains : build_add8_using_nybbles(c)
    \/ \E c \in Chains : Trigger(c)
    \/ \E c \in Chains : Fetch(c)
    \/ \E c \in Chains : Transfer(c)

Spec == Init /\ [][Next]_vars

\* the engine runs on its own: a channel with a descriptor to fetch or a
\* transfer to make does so
FairSpec ==
    Spec /\ \A c \in Chains : WF_vars(Fetch(c)) /\ WF_vars(Transfer(c))

\* the chains with a caller that changes the operands between build and trigger
StoreNext ==
    \/ Next
    \/ StoreOperand

StoreSpec == Init /\ [][StoreNext]_vars

TableInit ==
    /\ TInit
    /\ layout = "paged"
    /\ rom = 0
    /\ mem = << >>
    /\ ChainIdle

TNext ==
    \/ setup_low_nybble_low_nybble_to_byte
    \/ setup_low_nybble_to_low_nybble
    \/ setup_low_nybble_to_high_nybble
    \/ setup_high_nybble_to_high_nybble
    \/ setup_high_nybble_to_low_nybble
    \/ setup_nybble_add_no_carryin
    \/ setup_nybble_add_with_carryin
    \/ setup_nybble_carryout_no_carryin
    \/ setup_nybble_carryout_with_carryin
    \/ setup_nybble_compare_equal
    \/ CallAgain

TableSpec == TableInit /\ [][TNext]_vars

\* ------------------------------------------------------------------------
\* Claims about the add8 chain

\* the operand bytes at opa and opb
OpaVal == mem[OpaAddr(layout)]

OpbVal == mem[OpbAddr(layout)]

\* the chain of c has run: the channel halted, or every descriptor that
\* build_add8_using_nybbles emitted has completed its transfer
ChainRan(c) == pc[c] = "halted" \/ executed[c] = 0 .. NumDescs - 1

\* C1: once the chain built by build_add8_using_nybbles has been triggered and
\* has run, the result location holds (a + b) mod 256 for the operand bytes a, b
C1_Add8Result ==
    \A c \in Chains :
        ChainRan(c) => mem[ResultAddr(layout, c)] = (OpaVal + OpbVal) % 256

\* C2: a triggered chain eventually reaches the halted state, whatever the
\* operand bytes: no execution visits descriptors for ever
C2_ChainHalts ==
    \A c \in Chains : (pc[c] = "fetch") ~> (pc[c] = "halted")

\* the next-descriptor link stored in descs[i] of chain c
Link(c, i) == Word(mem, DescAddr(layout, c, i) + OffDESCADDR)

\* C3: the chain as built is one linear list: descs[i] links to descs[i+1],
\* and the last descriptor's link is null
C3_LinearChain ==
    \A c \in Chains :
        pc[c] = "built" =>
            /\ \A i \in 0 .. NumDescs - 2 : Link(c, i) = DescAddr(layout, c, i + 1)
            /\ Link(c, NumDescs - 1) = 0

\* C4: a table builder returns to its caller once it has populated every
\* entry of its table (256, or 4096 for setup_low_nybble_low_nybble_to_byte)
C4_BuildersReturn ==
    (fn # "" /\ written = 0 .. TableSize(fn) - 1) => tpc = "returned"

\* cells that are inputs to every chain rather than intermediate storage
SharedInput(x) ==
    \/ x < 256
    \/ InTables(layout, x)
    \/ x = OpaAddr(layout)
    \/ x = OpbAddr(layout)

\* the cells chain c has used as intermediate storage: all it wrote, and all
\* it read other than the shared inputs
Intermediate(c) ==
    { e[2] : e \in wr[c] } \cup { x \in { e[2] : e \in rd[c] } : ~SharedInput(x) }

\* C5: two chains built by separate calls never write a cell that the other
\* chain reads or writes as intermediate storage
C5_Isolation ==
    \A c, d \in Chains :
        c # d => { e[2] : e \in wr[c] } \cap Intermediate(d) = {}

\* index of the descriptor that descs[i] links to, from the DESCADDR stores
EmittedNext(i) ==
    CASE i = 0 -> Desc0Stores(0, 0)[5][3] \div DescSize
      [] i = 1 -> Desc1Stores(0, 0)[5][3] \div DescSize
      [] OTHER -> Desc2Stores(0, 0)[4][3] \div DescSize

RECURSIVE ReachFrom(_, _)
ReachFrom(i, n) ==
    IF n = 0 THEN {} ELSE { EmittedNext(i) } \cup ReachFrom(EmittedNext(i), n - 1)

\* descs[i] comes before descs[j] along the links
Precedes(i, j) == i # j /\ j \in ReachFrom(i, NumDescs) /\ i \notin ReachFrom(j, NumDescs)

\* C6: whenever a descriptor of a chain reads a cell (its own source-address
\* field, or the byte it copies) that another descriptor of the same chain
\* writes, the writer comes before the reader along the links
C6_LinkOrder ==
    \A c \in Chains : \A w \in wr[c], r \in rd[c] :
        (w[2] = r[2] /\ w[1] # r[1]) => Precedes(w[1], r[1])

\* C7: lookup tables are never mutated while chains execute: no latched
\* destination address lies in table storage and every table byte still holds
\* the value it was built with
C7_TablesImmutable ==
    /\ \A c \in Chains : pc[c] = "xfer" => ~InTables(layout, reg[c].dst)
    /\ \A x \in DOMAIN mem : InTables(layout, x) => mem[x] = TableByteAt(layout, x)

\* ------------------------------------------------------------------------
\* Claims about the tables

Nybbles == 0 .. 15

AddBuilders ==
    { "nybble_add_no_carryin", "nybble_add_with_carryin",
      "nybble_carryout_no_carryin", "nybble_carryout_with_carryin" }

CarryIn(f) ==
    IF f \in { "nybble_add_with_carryin", "nybble_carryout_with_carryin" } THEN 1 ELSE 0

IsSumTable(f) == f \in { "nybble_add_no_carryin", "nybble_add_with_carryin" }

C10_ExtractTables ==
    \A i \in written :
        /\ fn = "low_nybble_to_low_nybble" => base[i] = i % 16
        /\ fn = "low_nybble_to_high_nybble" => base[i] = (i % 16) * 16
        /\ fn = "high_nybble_to_high_nybble" => base[i] = i - (i % 16)
        /\ fn = "high_nybble_to_low_nybble" => base[i] = i \div 16

C10_Witness ==
    /\ fn = "high_nybble_to_low_nybble"
    /\ written = 0 .. 255
    /\ base[165] = 10

\* C11: every entry setup_nybble_compare_equal(base, a, b) has stored holds a
\* where the high nybble of the index equals its low nybble, and b elsewhere
C11_CompareEqualTable ==
    fn = "nybble_compare_equal" =>
        \A i \in written :
            base[i] = IF (i \div 16) = (i % 16) THEN cmp_a ELSE cmp_b

C11_Witness ==
    /\ fn = "nybble_compare_equal"
    /\ written = 0 .. 255
    /\ cmp_a # cmp_b
    /\ base[3 * 16 + 3] = cmp_a
    /\ base[3 * 16 + 4] = cmp_b

\* C12: a table builder handed a buffer shorter than its table writes no byte
\* beyond the end of that buffer
C12_ShortBufferNoOverrun ==
    (fn # "" /\ buflen < TableSize(fn)) => written \subseteq 0 .. buflen - 1

\* the byte builder f, with arguments a and b, puts at index i
BuiltEntry(f, i, a, b) ==
    IF f = "low_nybble_low_nybble_to_byte"
    THEN combine_target_value(i \div 256, i % 16)
    ELSE Entry(f, i, a, b)

\* C13: table builders are pure functions of their inputs: whatever bytes the
\* fresh buffer held, every entry stored is the one the builder and its
\* arguments a, b determine, so two runs on different buffers give identical
\* tables; and running the builder again over a table already built leaves
\* every byte as it is
C13_PureBuilders ==
    /\ [](fn # "" => \A i \in written : base[i] = BuiltEntry(fn, i, cmp_a, cmp_b))
    /\ [][(fn # "" /\ written = 0 .. TableSize(fn) - 1) => base' = base]_vars

\* the second run of the combine builder over its own table is under way
C13_Witness ==
    /\ fn = "low_nybble_low_nybble_to_byte"
    /\ written = 0 .. 4095
    /\ tpc = "loop"
    /\ high_nybble = 1
    /\ base[4095] = 255

\* ------------------------------------------------------------------------
\* Claims about the descriptors of the add8 chain

\* the fields of descs[i] of chain c as they are in RAM
BTCTRL(c, i) == Half(mem, DescAddr(layout, c, i) + OffBTCTRL)

BTCNT(c, i) == Half(mem, DescAddr(layout, c, i) + OffBTCNT)

DSTADDR(c, i) == Word(mem, DescAddr(layout, c, i) + OffDSTADDR)

\* C14: as built, descs[0] writes to the lowest byte of descs[2].SRCADDR and
\* descs[1] to the byte one above it, so both destinations lie in the two
\* low-order bytes of that field and in no other field of descs[2]
C14_AdjacentIndexBytes ==
    \A c \in Chains :
        pc[c] = "built" =>
            /\ DSTADDR(c, 0) = DescAddr(layout, c, 2) + OffSRCADDR
            /\ DSTADDR(c, 1) = DSTADDR(c, 0) + 1

\* C15: when descs[2] executes, the source address it has latched lies in
\* the storage of low_nybble_low_nybble_to_byte, base .. base + 4095
C15_LookupSourceInTable ==
    \A c \in Chains :
        (pc[c] = "xfer" /\ cur[c] = DescAddr(layout, c, 2)) =>
            (CombineBase <= reg[c].src /\ reg[c].src < CombineBase + 4096)

\* C16: the chain works on the operand bytes as they are when it executes:
\* the table index descs[0] reads at is the byte at opa, and the index descs[1]
\* reads at is the byte at opb, also when the caller stored to opa or opb
\* between the build and the trigger
C16_OperandsAtTrigger ==
    \A c \in Chains :
        pc[c] = "xfer" =>
            /\ cur[c] = DescAddr(layout, c, 0) => reg[c].src % 256 = OpaVal
            /\ cur[c] = DescAddr(layout, c, 1) => reg[c].src % 256 = OpbVal

\* the carry out of the low-nybble stage
CarryLow == ((OpaVal % 16) + (OpbVal % 16)) \div 16

\* address of the first byte of the 256-entry table f
ByteTableAddr(f) ==
    ByteTablesBase(layout) +
        256 * ((CHOOSE n \in DOMAIN ByteTableOrder : ByteTableOrder[n] = f) - 1)

\* chain c has read a byte of table f
ReadsTable(c, f) ==
    \E e \in rd[c] : ByteTableAddr(f) <= e[2] /\ e[2] < ByteTableAddr(f) + 256

\* C17: once the chain has run, the high nybble of the result is
\* (hiA + hiB + carry_low) mod 16, and the chain has read the carry-in-1 sum and
\* carry-out tables exactly when the low-nybble carry is 1, the carry-in-0
\* tables exactly when it is 0
C17_CarrySelect ==
    \A c \in Chains :
        ChainRan(c) =>
            /\ mem[ResultAddr(layout, c)] \div 16 =
                   ((OpaVal \div 16) + (OpbVal \div 16) + CarryLow) % 16
            /\ ReadsTable(c, "nybble_add_with_carryin") <=> CarryLow = 1
            /\ ReadsTable(c, "nybble_carryout_with_carryin") <=> CarryLow = 1
            /\ ReadsTable(c, "nybble_add_no_carryin") <=> CarryLow = 0
            /\ ReadsTable(c, "nybble_carryout_no_carryin") <=> CarryLow = 0

\* the control word w has the valid bit (0) set, no event output (bits 2-1),
\* block action none (bits 4-3), beat size byte (bits 9-8) and no source (10)
\* or destination (11) address increment
CtrlAsBuilt(w) ==
    /\ w % 2 = 1
    /\ (w \div 2) % 4 = 0
    /\ (w \div 8) % 4 = 0
    /\ (w \div 256) % 4 = 0
    /\ (w \div 1024) % 2 = 0
    /\ (w \div 2048) % 2 = 0

\* C18: when build_add8_using_nybbles returns, every descriptor it emitted
\* holds the same control word, with the valid bit set, byte beats, no address
\* increment, no event and no block action
C18_ControlWords ==
    [][\A c \in Chains :
           (pc[c] = "idle" /\ pc'[c] = "built") =>
               \A i \in 0 .. NumDescs - 1 :
                   /\ CtrlAsBuilt(BTCTRL(c, i))'
                   /\ BTCTRL(c, i)' = BTCTRL(c, 0)']_vars

\* chain 1 is built over storage that held other bits, chain 2 is not yet
C18_Witness ==
    /\ pc[1] = "built"
    /\ pc[2] = "idle"
    /\ \A i \in 0 .. NumDescs - 1 : BTCTRL(1, i) = 1
    /\ BTCTRL(2, 0) = 4096

\* C19: as built, every descriptor of the chain has transfer count 1 and byte
\* beats: it moves exactly one byte
C19_OneByteTransfers ==
    \A c \in Chains :
        pc[c] = "built" =>
            \A i \in 0 .. NumDescs - 1 :
                /\ BTCNT(c, i) = 1
                /\ (BTCTRL(c, i) \div 256) % 4 = 0

====
